---- MODULE Spec2Model ----
(***************************************************************************)
(* goog.i18n.messages: declareIcuTemplate() and its uncompiled-mode checks *)
(* (closure/goog/i18n/messages.js).                                        *)
(*                                                                         *)
(* JavaScript strings are sequences of one-character strings.  JavaScript  *)
(* values are records [kind, str, num, props]; an object's properties are  *)
(* kept in insertion order.  String positions are 0-based, as in           *)
(* JavaScript, so character i of t is t[i + 1].                            *)
(***************************************************************************)
EXTENDS Integers, Sequences, FiniteSets, TLC

VARIABLES COMPILED, lastIndex, templateString, options, icuPlaceholderNames, outcome, calls

vars == <<COMPILED, lastIndex, templateString, options, icuPlaceholderNames, outcome, calls>>

(***************************************************************************)
(* Bounds of the model.                                                    *)
(***************************************************************************)
\* longest template of the placeholder-scan specification
MaxLen == 6
\* number of declareIcuTemplate calls a behaviour of Spec makes
MaxCalls == 2

(***************************************************************************)
(* JavaScript values.                                                      *)
(***************************************************************************)
Undefined == [kind |-> "undefined", str |-> <<>>, num |-> 0, props |-> <<>>]
Null == [kind |-> "null", str |-> <<>>, num |-> 0, props |-> <<>>]
Bool(b) == [kind |-> "boolean", str |-> <<>>, num |-> IF b THEN 1 ELSE 0, props |-> <<>>]
Num(n) == [kind |-> "number", str |-> <<>>, num |-> n, props |-> <<>>]
Str(s) == [kind |-> "string", str |-> s, num |-> 0, props |-> <<>>]
Obj(p) == [kind |-> "object", str |-> <<>>, num |-> 0, props |-> p]
Arr(p) == [kind |-> "array", str |-> <<>>, num |-> 0, props |-> p]
Prop(k, v) == [key |-> k, val |-> v]

\* the typeof operator
TypeOf(v) ==
  CASE v.kind = "null" -> "object"
    [] v.kind = "array" -> "object"
    [] OTHER -> v.kind

\* ToBoolean: the truthiness the conditions `if (x)`, `!x` and assert(x) test
ToBoolean(v) ==
  CASE v.kind = "undefined" -> FALSE
    [] v.kind = "null" -> FALSE
    [] v.kind = "boolean" -> v.num = 1
    [] v.kind = "number" -> v.num # 0
    [] v.kind = "string" -> Len(v.str) > 0
    [] OTHER -> TRUE

(***************************************************************************)
(* Character classes of the two regular expressions.                       *)
(***************************************************************************)
LowerCase == {"a", "b", "c", "d", "e", "f", "g", "h", "i", "j", "k", "l", "m",
              "n", "o", "p", "q", "r", "s", "t", "u", "v", "w", "x", "y", "z"}
UpperCase == {"A", "B", "C", "D", "E", "F", "G", "H", "I", "J", "K", "L", "M",
              "N", "O", "P", "Q", "R", "S", "T", "U", "V", "W", "X", "Y", "Z"}
Digits == {"0", "1", "2", "3", "4", "5", "6", "7", "8", "9"}

\* [a-z_] without the i flag
IsNameStart_caseSensitive(c) == c \in LowerCase \cup {"_"}

\* [a-z_] under the i flag
IsNameStart(c) == c \in LowerCase \cup UpperCase \cup {"_"}
\* \w
IsWordChar(c) == c \in LowerCase \cup UpperCase \cup Digits \cup {"_"}

\* the character at 0-based position i of t
CharAt(t, i) == t[i + 1]
\* t.substring(from, to), 0-based, to exclusive
Substring(t, from, to) == SubSeq(t, from + 1, to)

(***************************************************************************)
(* ICU_PLACEHOLDER_GLOBAL_RE, the global case-insensitive regex matching  *)
(* an open brace, one of [a-z_], any number of \w, a close brace; and its  *)
(* exec().                                                                 *)
(***************************************************************************)
\* the end (exclusive) of the greedy \w* run starting at position i
RECURSIVE WordRunEnd(_, _)
WordRunEnd(t, i) ==
  IF i < Len(t) /\ IsWordChar(CharAt(t, i)) THEN WordRunEnd(t, i + 1) ELSE i

\* the end (exclusive) of a match anchored at position i, or -1
IcuMatchAt(t, i) ==
  IF i + 2 < Len(t) /\ CharAt(t, i) = "{" /\ IsNameStart(CharAt(t, i + 1))
  THEN LET e == WordRunEnd(t, i + 2)
       IN IF e < Len(t) /\ CharAt(t, e) = "}" THEN e + 1 ELSE -1
  ELSE -1

\* exec() of a global regex: the search starts at lastIndex; a match moves
\* lastIndex to its end, a failure resets lastIndex to 0
RECURSIVE ICU_PLACEHOLDER_GLOBAL_RE_exec(_, _)
ICU_PLACEHOLDER_GLOBAL_RE_exec(t, li) ==
  IF li > Len(t)
  THEN [found |-> FALSE, group1 |-> <<>>, lastIndex |-> 0]
  ELSE LET e == IcuMatchAt(t, li)
       IN IF e # -1
          THEN [found |-> TRUE, group1 |-> Substring(t, li + 1, e - 1), lastIndex |-> e]
          ELSE ICU_PLACEHOLDER_GLOBAL_RE_exec(t, li + 1)

\* the while loop of gatherIcuPlaceholderNames
RECURSIVE GatherLoop(_, _, _)
GatherLoop(t, li, resultSet) ==
  LET match == ICU_PLACEHOLDER_GLOBAL_RE_exec(t, li)
  IN IF match.found
     THEN GatherLoop(t, match.lastIndex, resultSet \cup {match.group1})
     ELSE [resultSet |-> resultSet, lastIndex |-> match.lastIndex]

\* a loop that stops after the first match (if instead of while)
gatherIcuPlaceholderNames_firstOnly(t, li) ==
  LET match == ICU_PLACEHOLDER_GLOBAL_RE_exec(t, li)
  IN IF match.found
     THEN [resultSet |-> {match.group1}, lastIndex |-> match.lastIndex]
     ELSE [resultSet |-> {}, lastIndex |-> match.lastIndex]

\* gatherIcuPlaceholderNames(icuTemplate), with the regex's lastIndex li on entry
gatherIcuPlaceholderNames(t, li) == GatherLoop(t, li, {})

(***************************************************************************)
(* Objects: property lookup and Object.keys().                             *)
(***************************************************************************)
\* o[k]: the value of own property k, undefined when there is none
RECURSIVE GetFrom(_, _, _)
GetFrom(p, k, i) ==
  IF i > Len(p) THEN Undefined
  ELSE IF p[i].key = k THEN p[i].val ELSE GetFrom(p, k, i + 1)
Get(o, k) == GetFrom(o.props, k, 1)

\* a canonical array index: decimal digits without a leading zero
IsArrayIndex(k) ==
  /\ Len(k) >= 1
  /\ \A i \in 1..Len(k) : k[i] \in Digits
  /\ (Len(k) = 1 \/ k[1] # "0")

DigitValue(c) ==
  CASE c = "0" -> 0 [] c = "1" -> 1 [] c = "2" -> 2 [] c = "3" -> 3 [] c = "4" -> 4
    [] c = "5" -> 5 [] c = "6" -> 6 [] c = "7" -> 7 [] c = "8" -> 8 [] c = "9" -> 9

RECURSIVE IndexValue(_, _)
IndexValue(k, n) ==
  IF n = 0 THEN 0 ELSE 10 * IndexValue(k, n - 1) + DigitValue(k[n])

\* the keys of p that are not array indices, in insertion order
RECURSIVE StringKeys(_, _)
StringKeys(p, i) ==
  IF i > Len(p) THEN <<>>
  ELSE IF IsArrayIndex(p[i].key) THEN StringKeys(p, i + 1)
       ELSE <<p[i].key>> \o StringKeys(p, i + 1)

\* the array-index keys of S in ascending numeric order
RECURSIVE IndexKeys(_)
IndexKeys(S) ==
  IF S = {} THEN <<>>
  ELSE LET least == CHOOSE k \in S :
                      \A j \in S : IndexValue(k, Len(k)) <= IndexValue(j, Len(j))
       IN <<least>> \o IndexKeys(S \ {least})

\* Object.keys(o): array-index keys ascending, then the others as inserted
ObjectKeys(o) ==
  IndexKeys({o.props[i].key : i \in {j \in 1..Len(o.props) : IsArrayIndex(o.props[j].key)}})
    \o StringKeys(o.props, 1)

(***************************************************************************)
(* Strings the code names.                                                 *)
(***************************************************************************)
K_description == <<"d", "e", "s", "c", "r", "i", "p", "t", "i", "o", "n">>
K_meaning == <<"m", "e", "a", "n", "i", "n", "g">>
K_example == <<"e", "x", "a", "m", "p", "l", "e">>
K_original_code == <<"o", "r", "i", "g", "i", "n", "a", "l", "_", "c", "o", "d", "e">>

\* the assertion messages (format strings, written without their inner quotes)
MSG_NO_DESCRIPTION == "no description supplied"
MSG_INVALID_DESCRIPTION == "invalid description: %s"
MSG_INVALID_MEANING == "invalid meaning: %s"
MSG_INVALID_EXAMPLE_MAP == "invalid example map: %s"
MSG_INVALID_ORIGINAL_CODE_MAP == "invalid original_code map: %s"
MSG_UNKNOWN_OPTION == "unknown option name: %s"
MSG_UNKNOWN_PLACEHOLDER == "%s: unknown placeholder: %s"
MSG_INVALID_MAP_VALUE == "invalid %s value for %s: %s"
MSG_CLOSURE_STYLE == "closure-style placeholder: %s found in ICU template: %s"

(***************************************************************************)
(* Outcomes of a call and of a single assertion.                           *)
(***************************************************************************)
NotCalled == [status |-> "none", value |-> <<>>, msg |-> "", args |-> <<>>]
Scanned == [status |-> "scanned", value |-> <<>>, msg |-> "", args |-> <<>>]
Pass == [status |-> "pass", value |-> <<>>, msg |-> "", args |-> <<>>]
Returned(t) == [status |-> "returned", value |-> t, msg |-> "", args |-> <<>>]
Thrown(msg, args) == [status |-> "thrown", value |-> <<>>, msg |-> msg, args |-> args]

\* goog.asserts.assert(condition, message, ...args): throws when the condition
\* is falsy
assert(condition, msg, args) == IF condition THEN Pass ELSE Thrown(msg, args)

\* statement sequencing: a thrown assertion ends the function
AndThen(first, rest) == IF first.status = "thrown" THEN first ELSE rest

(***************************************************************************)
(* CLOSURE_PLACEHOLDER_RE: an open brace, a dollar, one or more characters *)
(* other than a close brace, a close brace.  Not global: exec() always     *)
(* searches from the start.                                                *)
(***************************************************************************)
\* the end (exclusive) of the greedy [^}]+ run starting at position i
RECURSIVE NonBraceRunEnd(_, _)
NonBraceRunEnd(t, i) ==
  IF i < Len(t) /\ CharAt(t, i) # "}" THEN NonBraceRunEnd(t, i + 1) ELSE i

\* the end (exclusive) of a match anchored at position i, or -1
ClosureMatchAt(t, i) ==
  IF i + 3 < Len(t) /\ CharAt(t, i) = "{" /\ CharAt(t, i + 1) = "$"
  THEN LET e == NonBraceRunEnd(t, i + 2)
       IN IF e > i + 2 /\ e < Len(t) THEN e + 1 ELSE -1
  ELSE -1

RECURSIVE ClosureSearch(_, _)
ClosureSearch(t, i) ==
  IF i >= Len(t)
  THEN [found |-> FALSE, group0 |-> <<>>]
  ELSE LET e == ClosureMatchAt(t, i)
       IN IF e # -1
          THEN [found |-> TRUE, group0 |-> Substring(t, i, e)]
          ELSE ClosureSearch(t, i + 1)

\* a pattern anchored at the start of the template
CLOSURE_PLACEHOLDER_RE_exec_anchored(t) ==
  LET e == ClosureMatchAt(t, 0)
  IN IF e # -1 THEN [found |-> TRUE, group0 |-> Substring(t, 0, e)]
     ELSE [found |-> FALSE, group0 |-> <<>>]

CLOSURE_PLACEHOLDER_RE_exec(t) == ClosureSearch(t, 0)

assertNoClosureStylePlaceholdersInIcuTemplate(icuTemplate) ==
  LET match == CLOSURE_PLACEHOLDER_RE_exec(icuTemplate)
  IN assert(~match.found, MSG_CLOSURE_STYLE,
            <<IF match.found THEN Str(match.group0) ELSE Null, Str(icuTemplate)>>)

(***************************************************************************)
(* assertValidPlaceholderMap and the checks of                             *)
(* assertDeclareIcuTemplateParametersAreValid.                             *)
(***************************************************************************)
\* the body of the for loop, for one key
PlaceholderMapEntry(mapName, placeholderMap, allPlaceholderNames, placeholderName) ==
  AndThen(
    assert(placeholderName \in allPlaceholderNames, MSG_UNKNOWN_PLACEHOLDER,
           <<Str(mapName), Str(placeholderName)>>),
    LET placeholderValue == Get(placeholderMap, placeholderName)
    IN assert(TypeOf(placeholderValue) = "string", MSG_INVALID_MAP_VALUE,
              <<Str(mapName), Str(placeholderName), placeholderValue>>))

RECURSIVE PlaceholderMapLoop(_, _, _, _, _)
PlaceholderMapLoop(mapName, placeholderMap, allPlaceholderNames, keys, i) ==
  IF i > Len(keys) THEN Pass
  ELSE AndThen(
         PlaceholderMapEntry(mapName, placeholderMap, allPlaceholderNames, keys[i]),
         PlaceholderMapLoop(mapName, placeholderMap, allPlaceholderNames, keys, i + 1))

\* a loop that accepts every key of the map as a known placeholder name
assertValidPlaceholderMap_noNameCheck(mapName, placeholderMap, allPlaceholderNames) ==
  PlaceholderMapLoop(mapName, placeholderMap,
                     {placeholderMap.props[i].key : i \in 1..Len(placeholderMap.props)},
                     ObjectKeys(placeholderMap), 1)

assertValidPlaceholderMap(mapName, placeholderMap, allPlaceholderNames) ==
  PlaceholderMapLoop(mapName, placeholderMap, allPlaceholderNames,
                     ObjectKeys(placeholderMap), 1)

\* a description check without the first assertion
checkDescription_typeOnly(opts) ==
  LET description == Get(opts, K_description)
  IN assert(TypeOf(description) = "string", MSG_INVALID_DESCRIPTION, <<description>>)

checkDescription(opts) ==
  LET description == Get(opts, K_description)
  IN AndThen(
       assert(ToBoolean(description), MSG_NO_DESCRIPTION, <<>>),
       assert(TypeOf(description) = "string", MSG_INVALID_DESCRIPTION, <<description>>))

checkMeaning(opts) ==
  LET meaning == Get(opts, K_meaning)
  IN assert(~ToBoolean(meaning) \/ TypeOf(meaning) = "string",
            MSG_INVALID_MEANING, <<meaning>>)

checkExample(opts, names) ==
  LET exampleMap == Get(opts, K_example)
  IN IF ToBoolean(exampleMap)
     THEN AndThen(
            assert(TypeOf(exampleMap) = "object", MSG_INVALID_EXAMPLE_MAP, <<exampleMap>>),
            assertValidPlaceholderMap(K_example, exampleMap, names))
     ELSE Pass

checkOriginalCode(opts, names) ==
  LET originalCodeMap == Get(opts, K_original_code)
  IN IF ToBoolean(originalCodeMap)
     THEN AndThen(
            assert(TypeOf(originalCodeMap) = "object", MSG_INVALID_ORIGINAL_CODE_MAP,
                   <<originalCodeMap>>),
            assertValidPlaceholderMap(K_original_code, originalCodeMap, names))
     ELSE Pass

\* a set of valid options that lacks original_code
VALID_OPTIONS_withoutOriginalCode == {K_description, K_meaning, K_example}

VALID_OPTIONS == {K_description, K_meaning, K_example, K_original_code}

RECURSIVE OptionNamesLoop(_, _)
OptionNamesLoop(keys, i) ==
  IF i > Len(keys) THEN Pass
  ELSE AndThen(
         assert(keys[i] \in VALID_OPTIONS, MSG_UNKNOWN_OPTION, <<Str(keys[i])>>),
         OptionNamesLoop(keys, i + 1))

\* a check of the first key alone
checkOptionNames_firstKeyOnly(opts) ==
  LET keys == ObjectKeys(opts)
  IN IF Len(keys) = 0 THEN Pass
     ELSE assert(keys[1] \in VALID_OPTIONS, MSG_UNKNOWN_OPTION, <<Str(keys[1])>>)

checkOptionNames(opts) == OptionNamesLoop(ObjectKeys(opts), 1)

\* the checks made when not COMPILED; li is the global regex's lastIndex on entry
UncompiledChecks(t, opts, li) ==
  LET legacy == assertNoClosureStylePlaceholdersInIcuTemplate(t)
  IN IF legacy.status = "thrown"
     THEN [result |-> legacy, lastIndex |-> li, names |-> {}]
     ELSE LET g == gatherIcuPlaceholderNames(t, li)
          IN [result |->
                AndThen(checkDescription(opts),
                AndThen(checkMeaning(opts),
                AndThen(checkExample(opts, g.resultSet),
                AndThen(checkOriginalCode(opts, g.resultSet),
                        checkOptionNames(opts))))),
              lastIndex |-> g.lastIndex,
              names |-> g.resultSet]

\* checks that run in compiled mode too
assertDeclareIcuTemplateParametersAreValid_ignoresCompiled(t, opts, compiled, li) ==
  UncompiledChecks(t, opts, li)

assertDeclareIcuTemplateParametersAreValid(t, opts, compiled, li) ==
  IF compiled
  THEN [result |-> Pass, lastIndex |-> li, names |-> {}]
  ELSE UncompiledChecks(t, opts, li)

declareIcuTemplate(t, opts, compiled, li) ==
  LET v == assertDeclareIcuTemplateParametersAreValid(t, opts, compiled, li)
  IN [outcome |-> AndThen(v.result, Returned(t)),
      lastIndex |-> v.lastIndex,
      names |-> v.names]

(***************************************************************************)
(* The calls specification: a process, compiled or not, makes up to        *)
(* MaxCalls calls of declareIcuTemplate, each with any template of         *)
(* Templates; the options record is any record of OptionsRecords.  The     *)
(* global regex's lastIndex is the only state a call leaves behind.        *)
(***************************************************************************)
C_A == <<"A">>
C_a == <<"a">>
K_foo == <<"f", "o", "o">>
K_bar == <<"b", "a", "r">>
K_7 == <<"7">>
K_0 == <<"0">>

Templates ==
  { <<>>,
    <<"H", "i">>,
    <<"{", "A", "}">>,
    <<"{", "a", "}">>,
    <<"{", "A", "}", "{", "a", "}">>,
    <<"{", "$", "A", "}">>,
    <<"{", "A", "}", "{", "$", "a", "}">>,
    <<"{", "$", "}">> }

Text == Str(<<"x">>)
EmptyText == Str(<<>>)

DescriptionValues ==
  {EmptyText, Text, Num(0), Num(1), Bool(FALSE), Bool(TRUE), Null, Obj(<<>>), Arr(<<>>)}
MeaningValues == {Text, Num(0), Num(1), Null, Obj(<<>>)}
ExampleValues ==
  {Num(0), Num(1), EmptyText, Text,
   Arr(<<>>), Arr(<<Prop(K_0, Text)>>),
   Obj(<<Prop(C_A, Text)>>),
   Obj(<<Prop(C_a, Text)>>),
   Obj(<<Prop(C_A, Num(1))>>),
   Obj(<<Prop(C_A, Obj(<<>>))>>),
   Obj(<<Prop(C_A, Text), Prop(C_a, Text)>>),
   Obj(<<Prop(C_A, Num(1)), Prop(C_a, Text)>>)}
OriginalCodeValues ==
  {Num(0), Arr(<<>>),
   Obj(<<Prop(C_A, Text)>>),
   Obj(<<Prop(C_a, Num(1))>>)}
ExtraProps ==
  { <<>>,
    <<Prop(K_foo, Num(1)), Prop(K_bar, Undefined)>>,
    <<Prop(K_foo, Num(1)), Prop(K_7, Text)>> }

\* zero or one property named k with a value of V
Optional(k, V) == {<<>>} \cup {<<Prop(k, v)>> : v \in V}

OptionsRecords ==
  { Obj(d \o m \o e \o c \o x) :
      d \in Optional(K_description, DescriptionValues),
      m \in Optional(K_meaning, MeaningValues),
      e \in Optional(K_example, ExampleValues),
      c \in Optional(K_original_code, OriginalCodeValues),
      x \in ExtraProps }

Init ==
  /\ COMPILED \in BOOLEAN
  /\ lastIndex = 0
  /\ templateString = <<>>
  /\ options \in OptionsRecords
  /\ icuPlaceholderNames = {}
  /\ outcome = NotCalled
  /\ calls = 0

\* declareIcuTemplate(t, options)
Call(t) ==
  /\ calls < MaxCalls
  /\ LET r == declareIcuTemplate(t, options, COMPILED, lastIndex)
     IN /\ outcome' = r.outcome
        /\ lastIndex' = r.lastIndex
        /\ icuPlaceholderNames' = r.names
  /\ templateString' = t
  /\ calls' = calls + 1
  /\ UNCHANGED <<COMPILED, options>>

\* declareIcuTemplate with the arguments of the call before
CallAgain ==
  /\ calls >= 1
  /\ Call(templateString)

Next ==
  \/ \E t \in Templates : Call(t)
  \/ CallAgain

Spec == Init /\ [][Next]_vars

(***************************************************************************)
(* The placeholder-scan specification: every template up to MaxLen         *)
(* characters over ScanChars, scanned once by gatherIcuPlaceholderNames.   *)
(***************************************************************************)
ScanChars == {"{", "}", "$", "A", "a", "1", "_"}
ScanTemplates == UNION {[1..n -> ScanChars] : n \in 0..MaxLen}

InitGather ==
  /\ COMPILED = FALSE
  /\ lastIndex = 0
  /\ templateString \in ScanTemplates
  /\ options = Obj(<<>>)
  /\ icuPlaceholderNames = {}
  /\ outcome = NotCalled
  /\ calls = 0

Gather ==
  /\ outcome = NotCalled
  /\ LET g == gatherIcuPlaceholderNames(templateString, lastIndex)
     IN /\ icuPlaceholderNames' = g.resultSet
        /\ lastIndex' = g.lastIndex
  /\ outcome' = Scanned
  /\ UNCHANGED <<COMPILED, templateString, options, calls>>

NextGather == Gather

SpecGather == InitGather /\ [][NextGather]_vars

(***************************************************************************)
(* What the properties say, stated on the template and the options record  *)
(* themselves.                                                             *)
(***************************************************************************)
NameStartChars == LowerCase \cup UpperCase \cup {"_"}
NameChars == NameStartChars \cup Digits

\* s matches [A-Za-z_][A-Za-z0-9_]*
IsName(s) ==
  /\ Len(s) >= 1
  /\ s[1] \in NameStartChars
  /\ \A k \in 1..Len(s) : s[k] \in NameChars

\* the distinct names NAME such that {NAME} occurs in t
PlaceholderNamesOf(t) ==
  { SubSeq(t, p[1] + 1, p[2] - 1) :
      p \in { q \in (1..Len(t)) \X (1..Len(t)) :
                /\ t[q[1]] = "{"
                /\ t[q[2]] = "}"
                /\ q[1] < q[2]
                /\ IsName(SubSeq(t, q[1] + 1, q[2] - 1)) } }

\* s is "{$", one or more characters other than "}", "}"
IsLegacyPlaceholder(s) ==
  /\ Len(s) >= 4
  /\ s[1] = "{"
  /\ s[2] = "$"
  /\ s[Len(s)] = "}"
  /\ \A k \in 3..(Len(s) - 1) : s[k] # "}"

Occurrences(t) == { SubSeq(t, i, j) : i \in 1..Len(t), j \in 1..Len(t) }

\* t contains a legacy {$...} placeholder
HasLegacy(t) == \E s \in Occurrences(t) : IsLegacyPlaceholder(s)

\* t contains {$X} for a name X
HasLegacyName(t) ==
  \E s \in Occurrences(t) : IsLegacyPlaceholder(s) /\ IsName(SubSeq(s, 3, Len(s) - 1))

Has(o, k) == \E i \in 1..Len(o.props) : o.props[i].key = k
KeysOf(o) == { o.props[i].key : i \in 1..Len(o.props) }
Recognized == {K_description, K_meaning, K_example, K_original_code}

IsText(v) == v.kind = "string"
DescriptionValid(o) ==
  Has(o, K_description) /\ IsText(Get(o, K_description)) /\ Get(o, K_description).str # <<>>
MeaningValid(o) == ~Has(o, K_meaning) \/ IsText(Get(o, K_meaning))
\* v is a plain mapping from names of the set N to text
IsPlaceholderMap(v, N) ==
  /\ v.kind = "object"
  /\ \A i \in 1..Len(v.props) : v.props[i].key \in N /\ IsText(v.props[i].val)
MapValid(o, k, N) == ~Has(o, k) \/ IsPlaceholderMap(Get(o, k), N)
\* the four recognized fields obey the data-model rules
RecognizedFieldsValid(t, o) ==
  /\ DescriptionValid(o)
  /\ MeaningValid(o)
  /\ MapValid(o, K_example, PlaceholderNamesOf(t))
  /\ MapValid(o, K_original_code, PlaceholderNamesOf(t))
\* every data-model rule holds
RecordValid(t, o) == RecognizedFieldsValid(t, o) /\ KeysOf(o) \subseteq Recognized

Uncompiled == calls >= 1 /\ ~COMPILED

(***************************************************************************)
(* The properties.                                                         *)
(***************************************************************************)
\* C1: when not compiled, a call with a template free of legacy placeholders
\* and an options record obeying every data-model rule returns the template
\* itself
C1_ValidInputReturnsTemplate ==
  (Uncompiled /\ ~HasLegacy(templateString) /\ RecordValid(templateString, options))
    => outcome = Returned(templateString)

C1_Witness ==
  /\ Uncompiled
  /\ ~HasLegacy(templateString)
  /\ RecordValid(templateString, options)
  /\ Has(options, K_meaning)
  /\ Has(options, K_original_code)
  /\ Has(options, K_example)
  /\ KeysOf(Get(options, K_example)) = {C_A, C_a}
  /\ outcome = Returned(templateString)

\* C2: when compiled, every call returns the template itself, whatever the
\* template and the options record hold
C2_CompiledIsPassThrough ==
  (calls >= 1 /\ COMPILED) => outcome = Returned(templateString)

C2_Witness ==
  /\ calls >= 1
  /\ COMPILED
  /\ HasLegacyName(templateString)
  /\ ~Has(options, K_description)
  /\ Has(options, K_foo)
  /\ Has(options, K_example)
  /\ C_a \in KeysOf(Get(options, K_example))
  /\ outcome = Returned(templateString)

\* C3: when not compiled, a template containing {$X} for a name X makes the
\* call fail with the closure-style placeholder failure, naming a legacy
\* placeholder of the template and the whole template, whatever the options
\* record holds
C3_LegacyPlaceholderFails ==
  (Uncompiled /\ HasLegacyName(templateString))
    => /\ outcome.status = "thrown"
       /\ outcome.msg = MSG_CLOSURE_STYLE
       /\ Len(outcome.args) = 2
       /\ outcome.args[2] = Str(templateString)
       /\ outcome.args[1].kind = "string"
       /\ outcome.args[1].str \in Occurrences(templateString)
       /\ IsLegacyPlaceholder(outcome.args[1].str)

C3_Witness ==
  /\ Uncompiled
  /\ HasLegacyName(templateString)
  /\ templateString[1] = "{"
  /\ templateString[2] = "A"
  /\ ~Has(options, K_description)
  /\ Has(options, K_foo)
  /\ Has(options, K_meaning)
  /\ ~IsText(Get(options, K_meaning))
  /\ outcome.status = "thrown"
  /\ outcome.msg = MSG_CLOSURE_STYLE

\* C4: the set gatherIcuPlaceholderNames computes is exactly the set of the
\* distinct names NAME, matching [A-Za-z_][A-Za-z0-9_]*, such that {NAME}
\* occurs in the template
C4_GatheredNamesAreExact ==
  outcome = Scanned => icuPlaceholderNames = PlaceholderNamesOf(templateString)

C4_Witness ==
  /\ outcome = Scanned
  /\ icuPlaceholderNames = {C_A, C_a}

(***************************************************************************)
(* The order in which the entries of the two maps are checked: the         *)
(* entries of example in key order, then those of original_code.           *)
(***************************************************************************)
\* the entry of key k of the map named m is not a known name mapped to text
EntryOffends(o, m, k, N) == k \notin N \/ ~IsText(Get(Get(o, m), k))

\* position in key order of the first offending entry of map m, 0 if none
FirstOffending(o, m, N) ==
  LET keys == ObjectKeys(Get(o, m))
      bad == { i \in 1..Len(keys) : EntryOffends(o, m, keys[i], N) }
  IN IF bad = {} THEN 0 ELSE CHOOSE i \in bad : \A j \in bad : i <= j

IsMapWithUnknownKey(o, m, N) ==
  /\ Has(o, m)
  /\ Get(o, m).kind = "object"
  /\ \E k \in KeysOf(Get(o, m)) : k \notin N

\* the failure names key k of the map named m as an unknown placeholder
NamesUnknown(m, k) == outcome = Thrown(MSG_UNKNOWN_PLACEHOLDER, <<Str(m), Str(k)>>)

MapCheckPrecondition ==
  /\ Uncompiled
  /\ ~HasLegacy(templateString)
  /\ DescriptionValid(options)
  /\ MeaningValid(options)

\* C5 as stated: with a valid description and meaning and no legacy
\* placeholder, a map (example, likewise original_code) holding a key that is
\* not in the template's placeholder-name set makes the call fail with a
\* failure naming such a key and the map; and a record whose maps hold only
\* known names and text is accepted
C5_UnknownKeyIsNamed ==
  MapCheckPrecondition =>
    /\ \A m \in {K_example, K_original_code} :
         IsMapWithUnknownKey(options, m, PlaceholderNamesOf(templateString)) =>
           \E k \in KeysOf(Get(options, m)) \ PlaceholderNamesOf(templateString) :
             NamesUnknown(m, k)
    /\ (RecordValid(templateString, options) => outcome = Returned(templateString))

\* C5 as amended: such a call always fails, and the failure is that of the
\* first offending entry validation meets (example before original_code,
\* entries in key order, the name before the value): it names an unknown key
\* and its map exactly when that key's entry is the first offending one; and
\* a record whose maps hold only known names and text is accepted
C5_FirstUnknownKeyIsNamed ==
  LET N == PlaceholderNamesOf(templateString)
      firstIn(m) == ObjectKeys(Get(options, m))[FirstOffending(options, m, N)]
  IN MapCheckPrecondition =>
       /\ IsMapWithUnknownKey(options, K_example, N) =>
            /\ outcome.status = "thrown"
            /\ (firstIn(K_example) \notin N <=> NamesUnknown(K_example, firstIn(K_example)))
       /\ IsMapWithUnknownKey(options, K_original_code, N) =>
            /\ outcome.status = "thrown"
            /\ MapValid(options, K_example, N) =>
                 (firstIn(K_original_code) \notin N
                    <=> NamesUnknown(K_original_code, firstIn(K_original_code)))
       /\ (RecordValid(templateString, options) => outcome = Returned(templateString))

C5_Witness ==
  /\ MapCheckPrecondition
  /\ icuPlaceholderNames = {C_A}
  /\ Has(options, K_example)
  /\ Get(options, K_example).kind = "object"
  /\ KeysOf(Get(options, K_example)) = {C_a}
  /\ NamesUnknown(K_example, C_a)

\* C6: when not compiled, a record with a field other than the four
\* recognized ones never gets the template back; when the template and the
\* four recognized fields are valid the failure is the unknown-option-name
\* failure naming the first unrecognized field in the record's key order
C6_UnknownOptionFails ==
  LET keys == ObjectKeys(options)
      unknown == { i \in 1..Len(keys) : keys[i] \notin Recognized }
      first == CHOOSE i \in unknown : \A j \in unknown : i <= j
  IN (Uncompiled /\ ~(KeysOf(options) \subseteq Recognized)) =>
       /\ outcome.status = "thrown"
       /\ (~HasLegacy(templateString) /\ RecognizedFieldsValid(templateString, options))
            => outcome = Thrown(MSG_UNKNOWN_OPTION, <<Str(keys[first])>>)

C6_Witness ==
  /\ Uncompiled
  /\ Has(options, K_foo)
  /\ Has(options, K_7)
  /\ Has(options, K_example)
  /\ RecognizedFieldsValid(templateString, options)
  /\ outcome = Thrown(MSG_UNKNOWN_OPTION, <<Str(K_7)>>)

\* C7: when not compiled, a record whose description is missing, empty or
\* not text never gets the template back: the call fails
C7_BadDescriptionFails ==
  (Uncompiled /\ ~DescriptionValid(options)) => outcome.status = "thrown"

C7_Witness ==
  /\ Uncompiled
  /\ ~HasLegacy(templateString)
  /\ Has(options, K_description)
  /\ Get(options, K_description) = EmptyText
  /\ KeysOf(options) = {K_description}
  /\ outcome = Thrown(MSG_NO_DESCRIPTION, <<>>)

\* C8 as stated: when not compiled (the template free of legacy placeholders
\* and the description valid, so that the meaning check is reached), a meaning
\* that is present and not text makes the call fail with the invalid-meaning
\* failure
C8_NonTextMeaningFails ==
  (/\ Uncompiled
   /\ ~HasLegacy(templateString)
   /\ DescriptionValid(options)
   /\ Has(options, K_meaning)
   /\ ~IsText(Get(options, K_meaning)))
    => outcome = Thrown(MSG_INVALID_MEANING, <<Get(options, K_meaning)>>)

\* C9 as stated: when not compiled, a record whose example or original_code
\* is present and is not a plain mapping to text never gets the template back
C9_NonMapNeverReturns ==
  Uncompiled =>
    \A m \in {K_example, K_original_code} :
      (/\ Has(options, m)
       /\ \/ Get(options, m).kind # "object"
          \/ \E i \in 1..Len(Get(options, m).props) : ~IsText(Get(options, m).props[i].val))
        => outcome.status # "returned"

\* C10: a call's outcome does not depend on earlier calls: the global
\* placeholder regex is back at the start of input whenever a call begins,
\* and a valid pair validated after an earlier call gets its template back
C10_CallsAreIndependent ==
  /\ lastIndex = 0
  /\ (/\ calls >= 2
      /\ ~HasLegacy(templateString)
      /\ RecordValid(templateString, options))
       => outcome = Returned(templateString)

C10_Witness ==
  /\ calls >= 2
  /\ ~COMPILED
  /\ RecordValid(templateString, options)
  /\ icuPlaceholderNames = {C_A, C_a}
  /\ Has(options, K_example)
  /\ KeysOf(Get(options, K_example)) = {C_A, C_a}
  /\ lastIndex = 0
  /\ outcome = Returned(templateString)

====
